---- MODULE Spec2Model ----
(***************************************************************************)
(* A model of jaynes/jaynes.py: the Jaynes orchestrator (mount upload,     *)
(* host-unpack flag, launch-script composition, backend adapters), the     *)
(* process-wide RUN state, and the entry points config(), run() and       *)
(* listen().  Spec is the machine of config(), run() and upload_mount();   *)
(* SpecAll adds the direct call of the local-docker adapter, a second      *)
(* Jaynes instance and listen().                                           *)
(*                                                                         *)
(* Python dicts are functions from string keys to values; a composed       *)
(* script is the sequence of its non-empty fragments, in the order of the  *)
(* text.  None is the string "None" for a mode, NoDict for a dict and the  *)
(* one-fragment sequence None for a script.                                *)
(***************************************************************************)
EXTENDS Integers, Sequences, FiniteSets, TLC

VARIABLES
    RUN_J,          \* RUN.J: whether the Jaynes instance exists
    RUN_mode,       \* RUN.mode
    RUN_count,      \* RUN.count
    RUN_raw,        \* RUN.raw: the parsed document
    RUN_config,     \* RUN.config: the resolved configuration
    heap,           \* the launch-option dict objects of the parsed document
    mounts,         \* RUN.J.mounts
    uploaded,       \* Jaynes._uploaded
    host_unpacked,  \* RUN.J.host_unpacked
    launch_script,  \* RUN.J.launch_script
    runner,         \* RUN.J.runner
    uploadCount,    \* per mount: how often mount.upload was invoked
    unpackCount,    \* how often run() performed the remote unpack step
    configCalls,    \* number of config() calls made by the caller
    obs,            \* what the last call did (its outcome and side effects)
    J2_uploads,     \* the mounts whose upload a second Jaynes instance invoked
    listen_pc,      \* where the caller is in listen(): idle, sleep or loop
    listen_timeout  \* the timeout argument of the listen() call under way

vars == <<RUN_J, RUN_mode, RUN_count, RUN_raw, RUN_config, heap, mounts,
          uploaded, host_unpacked, launch_script, runner, uploadCount,
          unpackCount, configCalls, obs, J2_uploads, listen_pc,
          listen_timeout>>

(***************************************************************************)
(* Bounds of the model.                                                    *)
(***************************************************************************)
MaxRuns == 2
MaxConfigs == 2

(***************************************************************************)
(* Dicts.                                                                  *)
(***************************************************************************)
EmptyDict == [k \in {} |-> TRUE]
NoDict == [none |-> TRUE]

Get(d, k, default) == IF k \in DOMAIN d THEN d[k] ELSE default

\* dict.update(over): every key of over takes over's value, the others stay
DictUpdate(base, over) ==
    [k \in DOMAIN base \cup DOMAIN over |->
        IF k \in DOMAIN over THEN over[k] ELSE base[k]]

\* omit(d, keys) of jaynes.helpers, as run() uses it
Omit(d, keys) == [k \in DOMAIN d \ keys |-> d[k]]

Range(s) == {s[i] : i \in 1..Len(s)}

(***************************************************************************)
(* Mounts: what the mount objects of the document expose.                  *)
(***************************************************************************)
MountIds == {"A", "B", "C"}

host_setup == [m \in MountIds |->
    CASE m = "A" -> "a;" [] m = "B" -> "b;" [] OTHER -> ""]

upload_script == [m \in MountIds |->
    CASE m = "A" -> "ua;" [] m = "B" -> "" [] OTHER -> "uc;"]

(***************************************************************************)
(* Runner option values.  A string option is a template: a literal, a      *)
(* named reference "{name}" or a positional reference "{0}".               *)
(***************************************************************************)
Lit(t) == [kind |-> "lit", name |-> t]
Named(n) == [kind |-> "named", name |-> n]
Positional == [kind |-> "pos", name |-> "0"]
NonStr(t) == [kind |-> "nonstr", name |-> t]

(***************************************************************************)
(* The configuration documents (.jaynes.yml) the model loads.  raw is the  *)
(* parsed mapping; a launch entry is a reference into objs, the launch     *)
(* dict objects the parse created.                                         *)
(***************************************************************************)
BaseRunner == [image |-> Lit("x"), gpu |-> NonStr("false")]

DocObjs == [root |-> [type |-> "local_docker", root_config |-> "rc;"],
            run  |-> [type |-> "ssh", root_config |-> "rc;", setup |-> "su;"],
            fast |-> [type |-> "ec2", terminate_after |-> TRUE,
                      instance_name |-> "job"],
            mgr  |-> [type |-> "manager"],
            loc  |-> [type |-> "gce", delay |-> "60"]]

DocModes == [fast  |-> [launch |-> "fast", mounts |-> <<"C", "A", "B">>],
             mgr   |-> [launch |-> "mgr"],
             local |-> [launch |-> "loc", verbose |-> TRUE]]

DocRoot == [mounts |-> <<"A", "B">>, runner |-> BaseRunner,
            launch |-> "root", verbose |-> FALSE, modes |-> DocModes]

\* a document with a run block and modes
DocFull == [raw |-> DictUpdate(DocRoot, [run |-> [launch |-> "run"]]),
            objs |-> DocObjs]

\* a document with no run block, whose mode fast launches on gce
DocNoRun == [raw |-> DictUpdate(DocRoot,
                       [modes |-> [fast |-> [launch |-> "loc"],
                                   mgr  |-> [launch |-> "mgr"]]]),
             objs |-> DocObjs]

\* a document whose run block is empty, without a mode named local, and
\* whose mode fast launches on the local docker
DocEmptyRun == [raw |-> DictUpdate(DocRoot,
                          [run |-> EmptyDict,
                           modes |-> [fast |-> [launch |-> "root"]]]),
                objs |-> DocObjs]

Documents == {DocFull, DocNoRun, DocEmptyRun}

\* the inputs of config(): the mode, and the overrides and extension
\* values of a call
ModeArgs == {"None", "local", "fast", "mgr", "ghost"}

CallArgs ==
    {[runner |-> r, launch |-> EmptyDict, ext |-> EmptyDict] :
        r \in {EmptyDict,
               [name |-> Named("missing_field")], [name |-> Named("tag")],
               [name |-> Positional]}}
    \cup
    {[runner |-> EmptyDict, launch |-> l, ext |-> EmptyDict] :
        l \in {[terminate_after |-> TRUE], [dry |-> TRUE]}}
    \cup
    {[runner |-> [gpu |-> NonStr("true")], launch |-> [cleanup |-> FALSE],
      ext |-> EmptyDict],
     [runner |-> [name |-> Named("tag")], launch |-> EmptyDict,
      ext |-> [tag |-> "v1"]],
     [runner |-> [gpu |-> NonStr("true"), name |-> Lit("job")],
      launch |-> [dry |-> TRUE, root_config |-> "rc2;"], ext |-> EmptyDict]}

Falsy(x) == x \in {"None", ""}

(***************************************************************************)
(* Scripts.  A script is the sequence of its non-empty fragments; None and *)
(* True are the two other values host_unpacked and launch_script take.     *)
(***************************************************************************)
Frag(kind, text) == [kind |-> kind, text |-> text]
None == <<Frag("None", "")>>
True == <<Frag("True", "")>>
Truthy(v) == v # None

\* the fragments of a text: an empty string contributes nothing
Text(kind, text) == IF text = "" THEN <<>> ELSE <<Frag(kind, text)>>

RECURSIVE JoinAttr(_, _, _)
\* "\n".join([m.attr for m in ms if hasattr(m, attr) and m.attr])
JoinAttr(ms, attr, kind) ==
    IF ms = <<>> THEN <<>>
    ELSE Text(kind, attr[Head(ms)]) \o JoinAttr(Tail(ms), attr, kind)

(***************************************************************************)
(* What a call did: the observation the properties are stated over.        *)
(***************************************************************************)
Obs0(op) == [op |-> op, outcome |-> "ok", mode |-> "None",
             runnerArg |-> EmptyDict, launchArg |-> EmptyDict,
             baseRunner |-> EmptyDict, baseLaunch |-> EmptyDict,
             uploads |-> <<>>, events |-> <<>>, composed |-> <<>>,
             launched |-> <<>>, tmpfile |-> None,
             script |-> None,
             unpackedAtCompose |-> FALSE, ctxCount |-> -1,
             ctxKeys |-> {}, diag |-> NoDict, ret |-> "None"]

(***************************************************************************)
(* Jaynes.upload_mount                                                     *)
(***************************************************************************)
RECURSIVE UploadLoop(_, _, _, _, _)
\* the loop body that forgets to test the _uploaded list
UploadLoopNoSkip(ms, up, cnt, done, failM) ==
    IF ms = <<>> THEN [uploaded |-> up, uploadCount |-> cnt,
                       uploads |-> done, raised |-> FALSE]
    ELSE LET m == Head(ms)
             cnt2 == [cnt EXCEPT ![m] = @ + 1]
         IN IF m = failM
            THEN [uploaded |-> Append(up, m), uploadCount |-> cnt2,
                  uploads |-> Append(done, m), raised |-> TRUE]
            ELSE UploadLoop(Tail(ms), Append(up, m), cnt2,
                            Append(done, m), failM)

\* for mount in self.mounts: skip it when in _uploaded, else record it and
\* call mount.upload, which raises for the mount failM
UploadLoop(ms, up, cnt, done, failM) ==
    IF ms = <<>> THEN [uploaded |-> up, uploadCount |-> cnt,
                       uploads |-> done, raised |-> FALSE]
    ELSE LET m == Head(ms)
         IN IF m \in Range(up)
            THEN UploadLoop(Tail(ms), up, cnt, done, failM)
            ELSE LET up2 == Append(up, m)
                     cnt2 == [cnt EXCEPT ![m] = @ + 1]
                     done2 == Append(done, m)
                 IN IF m = failM
                    THEN [uploaded |-> up2, uploadCount |-> cnt2,
                          uploads |-> done2, raised |-> TRUE]
                    ELSE UploadLoop(Tail(ms), up2, cnt2, done2, failM)

\* upload_mount on the state st; o is the observation of the enclosing call
upload_mount(st, o, failM) ==
    LET r == UploadLoop(st.mounts, st.uploaded, st.uploadCount, <<>>, failM)
    IN [st EXCEPT !.uploaded = r.uploaded,
                  !.uploadCount = r.uploadCount,
                  !.obs = [o EXCEPT !.uploads = r.uploads,
                                    !.outcome = IF r.raised THEN "UploadError"
                                                ELSE "ok"]]

(***************************************************************************)
(* config()                                                                *)
(***************************************************************************)
\* the keys of ctx: env, now, uuid, RUN and the caller's extension values
Ctx(ext) == DictUpdate([env |-> "env", now |-> "now", uuid |-> "uuid",
                        RUN |-> "RUN"], ext)

\* lines 501-535: the first call finds and parses the document
LoadDocument(st, doc) ==
    IF st.J THEN st
    ELSE [st EXCEPT !.raw = doc.raw, !.heap = doc.objs, !.J = TRUE,
                    !.mounts = <<>>, !.runner = NoDict]

\* a resolution where a requested mode falls back to the run block
ResolveModeRunFirst(raw, mode) ==
    IF mode = "local" THEN [outcome |-> "local", config |-> raw]
    ELSE IF Falsy(mode) \/ "run" \in DOMAIN raw
    THEN IF Get(raw, "run", EmptyDict) = EmptyDict
         THEN [outcome |-> "AssertionError", config |-> raw]
         ELSE [outcome |-> "ok", config |-> DictUpdate(raw, raw["run"])]
    ELSE IF mode \notin DOMAIN Get(raw, "modes", EmptyDict)
    THEN [outcome |-> "KeyError", config |-> raw]
    ELSE [outcome |-> "ok", config |-> DictUpdate(raw, raw["modes"][mode])]

\* lines 537-548: RUN.config = RUN.raw.copy(), then the mode's block over it
ResolveMode(raw, mode) ==
    IF mode = "local" THEN [outcome |-> "local", config |-> raw]
    ELSE IF Falsy(mode)
    THEN IF Get(raw, "run", EmptyDict) = EmptyDict
         THEN [outcome |-> "AssertionError", config |-> raw]
         ELSE [outcome |-> "ok", config |-> DictUpdate(raw, raw["run"])]
    ELSE IF mode \notin DOMAIN Get(raw, "modes", EmptyDict)
    THEN [outcome |-> "KeyError", config |-> raw]
    ELSE [outcome |-> "ok", config |-> DictUpdate(raw, raw["modes"][mode])]

\* an override that replaces the base mapping instead of updating it
MergeOverrideDropsBase(base, over) == over

\* lines 552-553 and 557-558: local_copy.update(override)
MergeOverride(base, over) == DictUpdate(base, over)

\* lines 550-554: the runner override goes into a copy of the runner options
RunnerOverride(cfg, rArg) ==
    IF rArg = EmptyDict THEN cfg
    ELSE [cfg EXCEPT !["runner"] = MergeOverride(cfg["runner"], rArg)]

\* lines 556-559: the launch override updates the launch dict object itself,
\* which is the object the parsed document holds
LaunchOverride(hp, cfg, lArg) ==
    IF lArg = EmptyDict THEN hp
    ELSE [hp EXCEPT ![cfg["launch"]] = MergeOverride(@, lArg)]

config(st0, mode, found, doc, rArg, lArg, ext, failM) ==
    LET o == [Obs0("config") EXCEPT !.mode = mode, !.runnerArg = rArg,
                                    !.launchArg = lArg]
        st1 == [st0 EXCEPT !.mode = mode]
    IN IF ~st1.J /\ ~found
       THEN [st1 EXCEPT !.obs = [o EXCEPT !.outcome = "not_found"]]
       ELSE
       LET st2 == LoadDocument(st1, doc)
           res == ResolveMode(st2.raw, mode)
           st3 == [st2 EXCEPT !.config = res.config]
       IN IF res.outcome # "ok"
          THEN [st3 EXCEPT !.obs = [o EXCEPT !.outcome = res.outcome]]
          ELSE
          LET cfgR == RunnerOverride(res.config, rArg)
              hp == LaunchOverride(st3.heap, cfgR, lArg)
              cfg == DictUpdate(cfgR, Ctx(ext))
              o2 == [o EXCEPT !.baseRunner = res.config["runner"],
                              !.baseLaunch = st3.heap[res.config["launch"]]]
              st4 == [st3 EXCEPT !.config = cfg, !.heap = hp,
                                 !.mounts = Get(cfg, "mounts", <<>>)]
          IN upload_mount(st4, o2, failM)

(***************************************************************************)
(* Script composition                                                      *)
(***************************************************************************)
Shebang == <<Frag("shebang", "#!/bin/bash")>>

\* lines 44-73
make_host_unpack_script(ms, lc) ==
    Shebang \o Text("root_config", Get(lc, "root_config", ""))
            \o <<Frag("mkdir", "mkdir -p")>>
            \o JoinAttr(ms, host_setup, "host_setup")
            \o (IF "delay" \in DOMAIN lc THEN <<Frag("sleep", "sleep")>>
                ELSE <<>>)

\* lines 153-160: "" without terminate_after, the strategy of ec2 and gce,
\* and no strategy (an error) for the other types
TerminateCommands(lc) ==
    IF ~Get(lc, "terminate_after", FALSE) THEN ""
    ELSE IF lc["type"] = "ec2" THEN "ec2_terminate;"
    ELSE IF lc["type"] = "gce" THEN "gce_terminate;"
    ELSE "NotImplementedError"

\* the host_setup fragments joined whatever the flag says
HostUnpackPartIgnoresFlag(ms, unpacked) ==
    JoinAttr(ms, host_setup, "host_setup")

\* lines 145-147: no host_setup fragment once host_unpacked is truthy
HostUnpackPart(ms, unpacked) ==
    IF Truthy(unpacked) THEN <<>> ELSE JoinAttr(ms, host_setup, "host_setup")

\* the two mount sections in the other order
MountSectionsUploadFirst(ms, unpacked) ==
    JoinAttr(ms, upload_script, "upload_script") \o HostUnpackPart(ms, unpacked)

\* lines 172-174: the host_setup section, then the upload section
MountSections(ms, unpacked) ==
    HostUnpackPart(ms, unpacked) \o JoinAttr(ms, upload_script, "upload_script")

\* lines 131-147 and 162-183: the text of the launch script
HostScript(ms, rn, lc, unpacked) ==
    Shebang
    \o Text("root_config", Get(lc, "root_config", ""))
    \o <<Frag("log_setup", "mkdir -p")>>
    \o Text("setup", Get(lc, "setup", ""))
    \o (IF lc["type"] = "ec2" /\ "instance_name" \in DOMAIN lc
        THEN <<Frag("ec2_tag", "tag;")>> ELSE <<>>)
    \o MountSections(ms, unpacked)
    \o Text("runner_setup", rn["setup_script"])
    \o Text("run", rn["run_script"])
    \o Text("post", rn["post_script"])
    \o Text("terminate", TerminateCommands(lc))
    \o <<Frag("pipe_out", "tee")>>

\* make_host_script setting the flag as a side effect
MakeHostScriptSetsFlag(st, lc) ==
    IF TerminateCommands(lc) = "NotImplementedError"
    THEN [st EXCEPT !.obs.outcome = "NotImplementedError"]
    ELSE [st EXCEPT
            !.launch_script = HostScript(st.mounts, st.runner, lc,
                                         st.host_unpacked),
            !.host_unpacked = True,
            !.obs.composed = Append(@, "launch"),
            !.obs.unpackedAtCompose = Truthy(st.host_unpacked)]

\* make_host_script: raises before launch_script is assigned when
\* terminate_after has no strategy for the type
make_host_script(st, lc) ==
    IF TerminateCommands(lc) = "NotImplementedError"
    THEN [st EXCEPT !.obs.outcome = "NotImplementedError"]
    ELSE [st EXCEPT
            !.launch_script = HostScript(st.mounts, st.runner, lc,
                                         st.host_unpacked),
            !.obs.composed = Append(@, "launch"),
            !.obs.unpackedAtCompose = Truthy(st.host_unpacked)]

(***************************************************************************)
(* The backend adapters.  A call to a backend (a process, the network, a   *)
(* cloud API) is an event of the observation; fails says the call raises.  *)
(***************************************************************************)
Event(st, e) == [st EXCEPT !.obs.events = Append(@, e)]
Raise(st, exc) == [st EXCEPT !.obs.outcome = exc]
Return(st, v) == [st EXCEPT !.obs.ret = v]

\* line 637: the call of an adapter bound its arguments and its body runs
Enter(st, adapter) == [st EXCEPT !.obs.launched = Append(@, adapter)]

\* lines 214-225: what is written to the temporary file,
\* self.launch_script + cleanup_script if cleanup else ""
\* (the conditional expression binds weaker than +)
TempFile(script, cleanup) ==
    IF cleanup THEN script \o <<Frag("cleanup", "kill;")>> ELSE <<>>

\* lines 189-269: the temporary file is written; dry prints the commands
\* and returns; otherwise the script is run over ssh, and block returns the
\* (stdout, stderr) pair
launch_ssh(st, lc, block, fails) ==
    LET st1 == [st EXCEPT !.obs.tmpfile =
                   TempFile(st.launch_script, Get(lc, "cleanup", TRUE))]
    IN IF Get(lc, "dry", FALSE) THEN Return(st1, "None")
       ELSE IF fails THEN Raise(Event(st1, "ssh_exec"), "BackendError")
       ELSE Return(Event(st1, "ssh_exec"), IF block THEN "pair" ELSE "None")

\* lines 271-317: the provider is called with DryRun=dry
launch_ec2(st, lc, fails) ==
    IF fails THEN Raise(Event(st, "ec2_api"), "BackendError")
    ELSE Return(Event(st, "ec2_api"), "instance_id")

\* lines 319-399: without image_id the image family is looked up at the
\* provider before dry is tested
launch_gce(st, lc, fails) ==
    LET st1 == IF "image_id" \in DOMAIN lc THEN st
               ELSE Event(st, "gce_get_image")
    IN IF Get(lc, "dry", FALSE) THEN Return(st1, "instance_config")
       ELSE IF fails THEN Raise(Event(st1, "gce_insert"), "BackendError")
       ELSE Return(Event(st1, "gce_insert"), "operation")

\* lines 401-411: the flag is set before the fragments are pushed
manager_host_setup(st, lc, fails) ==
    LET st1 == Event([st EXCEPT !.host_unpacked = True], "manager_map")
    IN IF fails THEN Raise(st1, "BackendError") ELSE st1

\* lines 413-438: upload the script, execute it, print the triple; the
\* method has no return statement
launch_manager(st, lc, fails) ==
    IF fails THEN Raise(Event(st, "manager_upload"), "BackendError")
    ELSE Return(Event(Event(st, "manager_upload"), "manager_execute"), "None")

\* line 75: the keyword parameters of launch_local_docker
LocalDockerParams == {"log_dir", "delay", "verbose", "dry", "root_config"}

\* lines 80-104: the script launch_local_docker builds for itself
LocalDockerScript(ms, rn, kwargs, unpacked) ==
    Shebang
    \o Text("root_config", Get(kwargs, "root_config", ""))
    \o <<Frag("log_setup", "mkdir -p")>>
    \o MountSections(ms, unpacked)
    \o Text("runner_setup", rn["setup_script"])
    \o Text("run", rn["run_script"])
    \o (IF "delay" \in DOMAIN kwargs THEN <<Frag("sleep", "sleep")>>
        ELSE <<>>)

\* lines 75-109: launch_local_docker takes neither type nor **kwargs (run()
\* passes type among the keyword arguments); it reads self.runner, which is
\* None until a run() set it; dry skips the execution
launch_local_docker(st, kwargs, fails) ==
    IF ~(DOMAIN kwargs \subseteq LocalDockerParams)
    THEN Raise(st, "TypeError")
    ELSE IF st.runner = NoDict THEN Raise(Enter(st, "local_docker"),
                                          "AttributeError")
    ELSE LET st1 == [Enter(st, "local_docker") EXCEPT !.obs.script =
                        LocalDockerScript(st.mounts, st.runner, kwargs,
                                          st.host_unpacked)]
         IN IF Get(kwargs, "dry", FALSE) THEN Return(st1, "self")
            ELSE IF fails
            THEN Raise(Event(st1, "local_exec"), "BackendError")
            ELSE Return(Event(st1, "local_exec"), "self")

\* line 637: getattr(j, launch_config['type'])(**kwargs)
Dispatch(st, kwargs, fails) ==
    LET t == kwargs["type"]
    IN CASE t = "local_docker" -> launch_local_docker(st, kwargs, fails)
         [] t = "ssh" -> launch_ssh(Enter(st, t), kwargs,
                                    Get(kwargs, "block", FALSE), fails)
         [] t = "ec2" -> launch_ec2(Enter(st, t), kwargs, fails)
         [] t = "gce" -> launch_gce(Enter(st, t), kwargs, fails)
         [] t = "manager" -> launch_manager(Enter(st, t), kwargs, fails)
         [] OTHER -> Raise(st, "AttributeError")

(***************************************************************************)
(* run()                                                                   *)
(***************************************************************************)
\* the runners' fragments (jaynes.runners): Simple and Docker
Runners == {[setup_script |-> "", run_script |-> "r;", post_script |-> ""],
            [setup_script |-> "rs;", run_script |-> "r;", post_script |-> "rp;"]}

\* v.format(**context): a named reference to an absent name raises KeyError,
\* a positional reference raises IndexError (no positional argument is given)
FormatError(v, keys) ==
    CASE v.kind = "named" /\ v.name \notin keys -> "KeyError"
      [] v.kind = "pos" -> "IndexError"
      [] OTHER -> "ok"

\* lines 593-604: the options are formatted in turn; only IndexError is
\* caught, reported with the field and the context, and raised again.
\* (The documents here have at most one option that fails to format.)
Hydrate(st, opts, keys) ==
    LET bad == {k \in DOMAIN opts : FormatError(opts[k], keys) # "ok"}
    IN IF bad = {} THEN st
       ELSE LET k == CHOOSE x \in bad : TRUE
                e == FormatError(opts[k], keys)
            IN [st EXCEPT !.obs.outcome = e,
                          !.obs.diag = IF e = "IndexError"
                                       THEN [field |-> k, keys |-> keys]
                                       ELSE NoDict]

\* nothing was raised so far: the call goes on
Ok(st) == st.obs.outcome = "ok"

\* the unpack steps without the test of host_unpacked
RemoteUnpackAlways(st, lc, fails) ==
    IF lc["type"] = "ssh"
    THEN LET script == make_host_unpack_script(st.mounts, lc)
             st1 == [st EXCEPT !.host_unpacked = script,
                               !.launch_script = script,
                               !.unpackCount = @ + 1,
                               !.obs.composed = Append(@, "unpack")]
             st2 == launch_ssh(st1, Omit(lc, {"type", "block"}), TRUE, fails)
         IN IF Ok(st2) THEN [st2 EXCEPT !.launch_script = None,
                                        !.obs.ret = "None"]
            ELSE st2
    ELSE IF lc["type"] = "manager"
    THEN manager_host_setup([st EXCEPT !.unpackCount = @ + 1], lc, fails)
    ELSE st

\* lines 615-626: the remote unpack step of the ssh and manager types,
\* taken while host_unpacked is falsy
RemoteUnpack(st, lc, fails) ==
    IF lc["type"] = "ssh" /\ ~Truthy(st.host_unpacked)
    THEN LET script == make_host_unpack_script(st.mounts, lc)
             st1 == [st EXCEPT !.host_unpacked = script,
                               !.launch_script = script,
                               !.unpackCount = @ + 1,
                               !.obs.composed = Append(@, "unpack")]
             st2 == launch_ssh(st1, Omit(lc, {"type", "block"}), TRUE, fails)
         IN IF Ok(st2) THEN [st2 EXCEPT !.launch_script = None,
                                        !.obs.ret = "None"]
            ELSE st2
    ELSE IF lc["type"] = "manager" /\ ~Truthy(st.host_unpacked)
    THEN manager_host_setup([st EXCEPT !.unpackCount = @ + 1], lc, fails)
    ELSE st

\* the counter left alone
BumpCountForgets(st) == st

\* line 590
BumpCount(st) == [st EXCEPT !.count = @ + 1]

\* run() composing the launch script only while none is kept
RunRemoteKeepsScript(st, rn, failAt) ==
    LET keys == DOMAIN st.config \cup {"run"}
        st1 == BumpCount([st EXCEPT !.obs.ctxCount = st.count,
                                    !.obs.ctxKeys = keys])
        st2 == Hydrate(st1, st.config["runner"], keys)
        lc == st.heap[st.config["launch"]]
        kwargs == DictUpdate(lc, Omit(lc, {"type"}))
        st3 == IF Ok(st2)
               THEN RemoteUnpack([st2 EXCEPT !.runner = rn], lc,
                                 failAt = "unpack")
               ELSE st2
        st4 == IF Ok(st3) /\ st3.launch_script = None
               THEN make_host_script(st3, lc) ELSE st3
    IN IF Ok(st4) THEN Dispatch(st4, kwargs, failAt = "launch") ELSE st4

\* lines 578-640, after the local-mode return
RunRemote(st, rn, failAt) ==
    LET keys == DOMAIN st.config \cup {"run"}
        st1 == BumpCount([st EXCEPT !.obs.ctxCount = st.count,
                                    !.obs.ctxKeys = keys])
        st2 == Hydrate(st1, st.config["runner"], keys)
        lc == st.heap[st.config["launch"]]
        kwargs == DictUpdate(lc, Omit(lc, {"type"}))
        st3 == IF Ok(st2)
               THEN RemoteUnpack([st2 EXCEPT !.runner = rn], lc,
                                 failAt = "unpack")
               ELSE st2
        st4 == IF Ok(st3) THEN make_host_script(st3, lc) ELSE st3
    IN IF Ok(st4) THEN Dispatch(st4, kwargs, failAt = "launch") ELSE st4

\* lines 566-640
run(st0, found, doc, failM, rn, failAt) ==
    LET c == config(st0, "None", found, doc, EmptyDict, EmptyDict,
                    EmptyDict, failM)
        st1 == IF st0.J THEN [st0 EXCEPT !.obs = Obs0("run")]
               ELSE [c EXCEPT !.obs =
                        [Obs0("run") EXCEPT
                            !.uploads = c.obs.uploads,
                            !.outcome = IF c.obs.outcome = "not_found"
                                        THEN "ok" ELSE c.obs.outcome]]
    IN IF st1.obs.outcome # "ok" THEN st1
       ELSE IF st1.mode = "local" THEN Return(st1, "fn_result")
       ELSE IF st1.config = NoDict THEN Raise(st1, "AttributeError")
       ELSE RunRemote(st1, rn, failAt)

(***************************************************************************)
(* The state machine: the calls a program makes, in any order.             *)
(***************************************************************************)
Cur == [J |-> RUN_J, mode |-> RUN_mode, count |-> RUN_count, raw |-> RUN_raw,
        config |-> RUN_config, heap |-> heap, mounts |-> mounts,
        uploaded |-> uploaded, host_unpacked |-> host_unpacked,
        launch_script |-> launch_script, runner |-> runner,
        uploadCount |-> uploadCount, unpackCount |-> unpackCount,
        configCalls |-> configCalls, obs |-> obs, J2_uploads |-> J2_uploads]

Becomes(st) ==
    /\ RUN_J' = st.J
    /\ RUN_mode' = st.mode
    /\ RUN_count' = st.count
    /\ RUN_raw' = st.raw
    /\ RUN_config' = st.config
    /\ heap' = st.heap
    /\ mounts' = st.mounts
    /\ uploaded' = st.uploaded
    /\ host_unpacked' = st.host_unpacked
    /\ launch_script' = st.launch_script
    /\ runner' = st.runner
    /\ uploadCount' = st.uploadCount
    /\ unpackCount' = st.unpackCount
    /\ configCalls' = st.configCalls
    /\ obs' = st.obs
    /\ J2_uploads' = st.J2_uploads
    /\ UNCHANGED <<listen_pc, listen_timeout>>

Init ==
    /\ RUN_J = FALSE
    /\ RUN_mode = "None"
    /\ RUN_count = 0
    /\ RUN_raw = NoDict
    /\ RUN_config = NoDict
    /\ heap = NoDict
    /\ mounts = <<>>
    /\ uploaded = <<>>
    /\ host_unpacked = None
    /\ launch_script = None
    /\ runner = NoDict
    /\ uploadCount = [m \in MountIds |-> 0]
    /\ unpackCount = 0
    /\ configCalls = 0
    /\ obs = Obs0("init")
    /\ J2_uploads = <<>>
    /\ listen_pc = "idle"
    /\ listen_timeout = <<>>

\* the mount whose upload raises in a call, if any: one not yet uploaded
UploadFailures == {"none"} \cup ({"A"} \ Range(uploaded))
RunFailures == {"none", "unpack", "launch"}

\* the document is looked for and parsed by the first call only
FoundArgs == IF RUN_J THEN {TRUE} ELSE BOOLEAN
DocArgs == IF RUN_J THEN {DocFull} ELSE Documents

\* the caller calls jaynes.config(mode, runner=, launch=, **ext)
Config ==
    /\ listen_pc = "idle"
    /\ configCalls < MaxConfigs
    /\ \E mode \in ModeArgs, found \in FoundArgs, doc \in DocArgs,
          a \in CallArgs, failM \in UploadFailures :
          Becomes([config(Cur, mode, found, doc, a.runner, a.launch, a.ext,
                          failM)
                      EXCEPT !.configCalls = @ + 1])

\* the caller calls jaynes.run(fn)
Run ==
    /\ listen_pc = "idle"
    /\ RUN_count < MaxRuns
    /\ \E found \in FoundArgs, doc \in DocArgs,
          failM \in (IF RUN_J THEN {"none"} ELSE UploadFailures),
          rn \in Runners, failAt \in RunFailures :
          Becomes(run(Cur, found, doc, failM, rn, failAt))

\* the caller calls RUN.J.upload_mount()
UploadMount ==
    /\ listen_pc = "idle"
    /\ RUN_J
    /\ \E failM \in UploadFailures :
          Becomes(upload_mount(Cur, Obs0("upload_mount"), failM))

Next == Config \/ Run \/ UploadMount

Spec == Init /\ [][Next]_vars

\* the caller calls RUN.J.local_docker(dry=..., root_config=...) itself
LocalDocker ==
    /\ listen_pc = "idle"
    /\ RUN_J
    /\ \E dry \in BOOLEAN, fails \in BOOLEAN :
          Becomes(launch_local_docker(
                     [Cur EXCEPT !.obs = Obs0("local_docker")],
                     [dry |-> dry, root_config |-> "rc;"], fails))

\* the timeout arguments of listen(): none (<<>>), 0 and a positive one
TimeoutArgs == {<<>>, <<0>>, <<5>>}

\* line 650, `if timeout:`: None and 0 are both falsy
TimeoutTruthy(t) == t # <<>> /\ t[1] # 0

\* lines 643-656: the caller calls jaynes.listen(timeout) and blocks in it,
\* in time.sleep(timeout) or in the while True loop
Listen ==
    /\ listen_pc = "idle"
    /\ \E t \in TimeoutArgs :
          /\ listen_timeout' = t
          /\ listen_pc' = IF TimeoutTruthy(t) THEN "sleep" ELSE "loop"
    /\ UNCHANGED <<RUN_J, RUN_mode, RUN_count, RUN_raw, RUN_config, heap,
                   mounts, uploaded, host_unpacked, launch_script, runner,
                   uploadCount, unpackCount, configCalls, obs, J2_uploads>>

\* lines 651-652: the sleep is over, listen() prints and returns
ListenReturn ==
    /\ listen_pc = "sleep"
    /\ listen_pc' = "idle"
    /\ listen_timeout' = <<>>
    /\ UNCHANGED <<RUN_J, RUN_mode, RUN_count, RUN_raw, RUN_config, heap,
                   mounts, uploaded, host_unpacked, launch_script, runner,
                   uploadCount, unpackCount, configCalls, obs, J2_uploads>>

\* lines 654-656: one turn of the while True loop, which has no exit
ListenBeat ==
    /\ listen_pc = "loop"
    /\ UNCHANGED vars

\* the mounts of the second instance: J2 = Jaynes(mounts=[A])
J2Mounts == <<"A">>

\* lines 17-36: the caller calls J2.upload_mount() on a second Jaynes
\* instance; self._uploaded is the list of the class (line 28)
UploadMountJ2 ==
    /\ listen_pc = "idle"
    /\ \E failM \in UploadFailures :
          LET st == upload_mount([Cur EXCEPT !.mounts = J2Mounts],
                                 Obs0("upload_mount_J2"), failM)
          IN Becomes([st EXCEPT !.mounts = mounts,
                                !.J2_uploads = @ \o st.obs.uploads])

\* the calls of Next and the direct calls of the other entry points
NextAll ==
    \/ Next
    \/ LocalDocker
    \/ UploadMountJ2
    \/ Listen
    \/ ListenReturn
    \/ ListenBeat

SpecAll == Init /\ [][NextAll]_vars

\* listen() is blocked in a sleep of finite length: it goes on
FairSpecAll == SpecAll /\ WF_vars(ListenReturn)

(***************************************************************************)
(* Properties                                                              *)
(***************************************************************************)
Composed(kind) == kind \in Range(obs.composed)
Kinds(script) == {script[i].kind : i \in 1..Len(script)}
LaunchConfig == heap[RUN_config["launch"]]

\* C1: each mount's upload side effect is invoked at most once over all
\* the upload_mount calls (direct ones and those of config()), a mount is
\* recorded as uploaded exactly when its upload was invoked, after every
\* upload_mount call that returns each mount of the list was uploaded
\* exactly once, and an error comes from an upload, never from a skip.
C1_UploadOnce ==
    /\ \A m \in MountIds : uploadCount[m] <= 1
    /\ \A m \in MountIds : (m \in Range(uploaded)) <=> (uploadCount[m] = 1)
    /\ (obs.op \in {"upload_mount", "config"} /\ obs.outcome = "ok")
          => \A m \in Range(mounts) : uploadCount[m] = 1
    /\ (obs.outcome = "UploadError") => obs.uploads # <<>>

\* a later upload_mount call that found every mount uploaded and skipped all
C1_Witness ==
    /\ obs.op = "upload_mount" /\ obs.outcome = "ok"
    /\ obs.uploads = <<>>
    /\ Len(mounts) = 3
    /\ \A m \in Range(mounts) : uploadCount[m] = 1

\* C2: a launch script that make_host_script composes while host_unpacked
\* is truthy holds no mount's host_setup fragment.
C2_NoHostSetupOnceUnpacked ==
    (Composed("launch") /\ obs.unpackedAtCompose)
       => /\ "host_setup" \notin Kinds(launch_script)
          /\ \A m \in MountIds : \A i \in 1..Len(launch_script) :
                host_setup[m] # "" => launch_script[i].text # host_setup[m]

\* a script composed after the flag was set, from mounts with host_setup text
C2_Witness ==
    /\ Composed("launch") /\ obs.unpackedAtCompose
    /\ \E m \in Range(mounts) : host_setup[m] # ""

\* the place of a fragment kind in the fixed order
Rank(kind) ==
    CASE kind = "shebang" -> 0
      [] kind = "root_config" -> 1
      [] kind = "log_setup" -> 2
      [] kind \in {"setup", "ec2_tag"} -> 3
      [] kind = "host_setup" -> 4
      [] kind = "upload_script" -> 5
      [] kind = "runner_setup" -> 6
      [] kind = "run" -> 7
      [] kind = "post" -> 8
      [] kind = "terminate" -> 9
      [] OTHER -> 10

\* the place in the mount list of the mount a fragment comes from
MountPos(f) ==
    CHOOSE k \in 1..Len(mounts) :
        IF f.kind = "host_setup" THEN host_setup[mounts[k]] = f.text
        ELSE upload_script[mounts[k]] = f.text

\* C3: the composed launch script holds its fragments in the fixed order
\* (root config, log directory, host_setup per mount in list order, upload
\* per mount in list order, runner setup, run, post, termination), every
\* non-empty upload and runner fragment is there, and termination commands
\* are there only with terminate_after.
C3_FixedOrder ==
    Composed("launch") =>
       LET s == launch_script
       IN /\ \A i, j \in 1..Len(s) : i < j =>
                /\ Rank(s[i].kind) <= Rank(s[j].kind)
                /\ (s[i].kind = s[j].kind
                    /\ s[i].kind \in {"host_setup", "upload_script"})
                      => MountPos(s[i]) < MountPos(s[j])
          /\ \A m \in Range(mounts) : upload_script[m] # "" =>
                Frag("upload_script", upload_script[m]) \in Range(s)
          /\ \A m \in Range(mounts) :
                (host_setup[m] # "" /\ ~obs.unpackedAtCompose) =>
                    Frag("host_setup", host_setup[m]) \in Range(s)
          /\ Frag("run", runner["run_script"]) \in Range(s)
          /\ runner["post_script"] # "" =>
                Frag("post", runner["post_script"]) \in Range(s)
          /\ "terminate" \in Kinds(s) =>
                Get(LaunchConfig, "terminate_after", FALSE)

\* a script with two host_setup fragments, two upload fragments, the three
\* runner fragments and the termination commands
C3_Witness ==
    /\ Composed("launch")
    /\ {Frag("host_setup", "a;"), Frag("host_setup", "b;"),
        Frag("upload_script", "uc;"), Frag("upload_script", "ua;"),
        Frag("runner_setup", "rs;"), Frag("post", "rp;")}
          \subseteq Range(launch_script)
    /\ "terminate" \in Kinds(launch_script)

\* C4 (as claimed): a run() that fails with the unsupported-capability
\* error has composed no script and made no backend call.
C4_FailFast ==
    (obs.op = "run" /\ obs.outcome = "NotImplementedError")
       => (obs.events = <<>> /\ obs.composed = <<>>)

\* C5: host_unpacked, once truthy, keeps its value, and run() performs the
\* remote unpack step at most once: no run() after the transition does it.
C5_UnpackOnce ==
    [][/\ Truthy(host_unpacked) =>
            (host_unpacked' = host_unpacked /\ unpackCount' = unpackCount)
       /\ unpackCount' <= 1]_vars

\* a second run() that composed its launch script and skipped the unpack
C5_Witness ==
    /\ obs.op = "run" /\ obs.outcome = "ok"
    /\ RUN_count = 2 /\ unpackCount = 1
    /\ Composed("launch") /\ ~Composed("unpack")
    /\ LaunchConfig["type"] \in {"ssh", "manager"}

\* C6 (as claimed): a config() call without overrides resolves the launch
\* and runner options of the document: earlier overrides have no effect.
C6_NoCarryOver ==
    (obs.op = "config" /\ obs.outcome = "ok"
        /\ obs.launchArg = EmptyDict /\ obs.runnerArg = EmptyDict)
       => /\ LaunchConfig = DocObjs[RUN_config["launch"]]
          /\ RUN_config["runner"] = BaseRunner

\* C7 (as claimed): every run() call increments RUN.count by exactly one;
\* stated for the calls that return, which are the least to ask it of.
C7_EveryRunIncrements ==
    [][(obs'.op = "run" /\ obs'.outcome = "ok")
          => RUN_count' = RUN_count + 1]_vars

\* C7 (amended): a run() call that builds its interpolation context sees
\* the current count in it and increments RUN.count by exactly one, also
\* when it fails afterwards; a run() call that returns in local mode or
\* fails before building the context, and every other call, leaves the
\* counter unchanged.  So the counter never decreases and the counts seen
\* in successive contexts are strictly increasing.
C7_CountMonotone ==
    [][/\ RUN_count' >= RUN_count
       /\ obs'.op = "run" =>
             IF obs'.ctxKeys # {}
             THEN obs'.ctxCount = RUN_count /\ RUN_count' = RUN_count + 1
             ELSE RUN_count' = RUN_count
       /\ obs'.op # "run" => RUN_count' = RUN_count]_vars

\* the second run() that built a context: it saw the count 1
C7_Witness ==
    /\ obs.op = "run" /\ obs.ctxKeys # {}
    /\ obs.ctxCount = 1 /\ RUN_count = 2

\* the parsed document's block for a mode: the run block without a mode
Block(mode) ==
    IF Falsy(mode) THEN Get(RUN_raw, "run", EmptyDict)
    ELSE Get(RUN_raw, "modes", EmptyDict)[mode]

HasBlock(mode) ==
    IF Falsy(mode) THEN Get(RUN_raw, "run", EmptyDict) # EmptyDict
    ELSE mode \in DOMAIN Get(RUN_raw, "modes", EmptyDict)

\* the configuration holds the values of the mode's block over the root's
BlockOverRoot(mode) ==
    /\ \A k \in DOMAIN Block(mode) : RUN_config[k] = Block(mode)[k]
    /\ \A k \in DOMAIN RUN_raw \ (DOMAIN Block(mode) \cup {"runner"}) :
          RUN_config[k] = RUN_raw[k]

\* C8 (as claimed): without a mode the run block overrides the root
\* defaults and a missing or empty run block is an error; a requested mode
\* present under modes overrides the root defaults; a requested mode absent
\* from modes is an unknown-mode error.
C8_ModePrecedenceAnyName ==
    (obs.op = "config" /\ obs.outcome # "not_found") =>
       IF HasBlock(obs.mode)
       THEN obs.outcome \in {"ok", "UploadError"} /\ BlockOverRoot(obs.mode)
       ELSE obs.outcome = (IF Falsy(obs.mode) THEN "AssertionError"
                           ELSE "KeyError")

\* C8 (amended): as claimed for every mode name other than local; the mode
\* named local never fails and resolves to the root defaults alone, whether
\* or not modes has an entry of that name.
C8_ModePrecedence ==
    (obs.op = "config" /\ obs.outcome # "not_found") =>
       IF obs.mode = "local"
       THEN obs.outcome = "local" /\ RUN_config = RUN_raw
       ELSE IF HasBlock(obs.mode)
       THEN obs.outcome \in {"ok", "UploadError"} /\ BlockOverRoot(obs.mode)
       ELSE obs.outcome = (IF Falsy(obs.mode) THEN "AssertionError"
                           ELSE "KeyError")

\* config("fast") on a document that also has a run block
C8_Witness ==
    /\ obs.op = "config" /\ obs.mode = "fast" /\ obs.outcome = "ok"
    /\ "run" \in DOMAIN RUN_raw
    /\ RUN_config["launch"] = "fast"
    /\ Get(RUN_raw["run"], "launch", "") = "run"

\* res is base updated key by key with over
KeyByKey(res, base, over) ==
    /\ DOMAIN res = DOMAIN base \cup DOMAIN over
    /\ \A k \in DOMAIN over : res[k] = over[k]
    /\ \A k \in DOMAIN base \ DOMAIN over : res[k] = base[k]

C10_MissingKeyReported ==
    (obs.op = "run" /\ obs.outcome = "KeyError") =>
       /\ obs.diag # NoDict
       /\ obs.diag.keys = obs.ctxKeys
       /\ obs.composed = <<>> /\ obs.events = <<>>

\* the last call ended with an exception.  ("not_found" is config()'s
\* return after it printed that no .jaynes.yml exists.)
Raised == obs.outcome \notin {"ok", "local", "not_found"}

\* C11: a config() call that finds no document ends with an error, and a
\* run() that set off such a configuration ends with an error without
\* composing a script or calling a backend.  (RUN.J is still unset after a
\* call exactly when no document was loaded.)
C11_NotFoundIsError ==
    /\ (obs.op = "config" /\ ~RUN_J) => Raised
    /\ (obs.op = "run" /\ ~RUN_J)
          => Raised /\ obs.composed = <<>> /\ obs.events = <<>>

\* the configuration in force was resolved from the document without error:
\* the mode is one the document defines, or no mode and a run block
ValidConfig ==
    /\ RUN_config # NoDict
    /\ IF RUN_mode = "None"
       THEN Get(RUN_raw, "run", EmptyDict) # EmptyDict
       ELSE RUN_mode \in DOMAIN RUN_raw["modes"]

\* C12: with a valid configuration, a run() that composed its launch script invokes the adapter of the
\* configured type exactly once and no other adapter, ends without an error
\* unless the backend itself failed, and hands the adapter's result back.
C12_AdapterOnce ==
    (obs.op = "run" /\ Composed("launch") /\ ValidConfig) =>
       /\ obs.launched = <<LaunchConfig["type"]>>
       /\ obs.outcome \in {"ok", "BackendError"}
       /\ obs.outcome = "ok" =>
             obs.ret = CASE LaunchConfig["type"] = "ec2" -> "instance_id"
                         [] LaunchConfig["type"] = "gce" ->
                              IF Get(LaunchConfig, "dry", FALSE)
                              THEN "instance_config" ELSE "operation"
                         [] LaunchConfig["type"] = "local_docker" -> "self"
                         [] OTHER -> "None"

\* C13: a manager launch that ends without an error hands the
\* (stdout, stderr, error) triple of the remote execution to its caller.
C13_ManagerReturnsTriple ==
    (obs.op = "run" /\ obs.launched = <<"manager">> /\ obs.outcome = "ok")
       => obs.ret = "triple"

\* the launch configuration after the step
LaunchConfigNext == heap'[RUN_config'["launch"]]

\* C14 as stated: every run() that composes a launch script leaves
\* host_unpacked truthy, and when the run() before it composed one too, its
\* script holds no host_setup fragment, whatever the backend type.
C14_ComposeSetsFlag ==
    [][(obs'.op = "run" /\ "launch" \in Range(obs'.composed)) =>
          /\ Truthy(host_unpacked')
          /\ (obs.op = "run" /\ Composed("launch"))
                => "host_setup" \notin Kinds(launch_script')]_vars

\* C14: host_unpacked changes only in a run() of the ssh or manager type
\* that takes the remote unpack step; composing the launch script leaves it
\* alone.  So a run() of the ssh or manager type composes a launch script
\* without host_setup fragments, and a run() of another type composes one
\* with the host_setup fragments of its mounts exactly when the flag was
\* falsy before the run.
C14_FlagOnlyByUnpack ==
    [][/\ host_unpacked' # host_unpacked =>
             /\ obs'.op = "run"
             /\ unpackCount' = unpackCount + 1
             /\ LaunchConfigNext["type"] \in {"ssh", "manager"}
       /\ (obs'.op = "run" /\ "launch" \in Range(obs'.composed)) =>
             IF LaunchConfigNext["type"] \in {"ssh", "manager"}
             THEN "host_setup" \notin Kinds(launch_script')
             ELSE /\ host_unpacked' = host_unpacked
                  /\ "host_setup" \in Kinds(launch_script')
                       <=> /\ ~Truthy(host_unpacked)
                           /\ \E m \in Range(mounts') : host_setup[m] # ""]_vars

\* a second run() on ec2 or gce whose launch script holds host_setup
\* fragments again, the flag still falsy
C14_Witness ==
    /\ obs.op = "run" /\ Composed("launch") /\ RUN_count = 2
    /\ LaunchConfig["type"] \in {"ec2", "gce"}
    /\ "host_setup" \in Kinds(launch_script)
    /\ ~Truthy(host_unpacked)

\* C15: the temporary file the ssh adapter wrote for a launch holds the
\* current launch script, followed by the cleanup fragment when cleanup is
\* enabled and by nothing when it is disabled.
C15_TempFileHoldsScript ==
    (obs.op = "run" /\ obs.launched = <<"ssh">>) =>
       obs.tmpfile = IF Get(LaunchConfig, "cleanup", TRUE)
                     THEN launch_script \o <<Frag("cleanup", "kill;")>>
                     ELSE launch_script

\* C16: a gce launch with dry returns the built request and makes no call
\* to the provider, whether or not an image_id is given.
C16_GceDryCallsNothing ==
    (obs.op = "run" /\ obs.launched = <<"gce">>
        /\ Get(LaunchConfig, "dry", FALSE))
       => obs.ret = "instance_config" /\ obs.events = <<>>

\* the fragments of a script that come from the mounts and the runner
FromMountsAndRunner(script) ==
    SelectSeq(script, LAMBDA f : f.kind \in {"host_setup", "upload_script",
                                            "runner_setup", "run", "post"})

\* C17: the script the local-docker adapter executes carries the mount and
\* runner fragments of the launch script make_host_script composes for the
\* same instance, in the same order, the runner's post fragment included.
C17_LocalDockerRunsLaunchScript ==
    (obs.op = "local_docker" /\ obs.outcome = "ok") =>
       FromMountsAndRunner(obs.script)
          = FromMountsAndRunner(
               HostScript(mounts, runner,
                          [type |-> "local_docker", root_config |-> "rc;"],
                          host_unpacked))

\* C18: a listen() call that was given a timeout, 0 included, eventually
\* returns; one that was given none never returns; and no step of listen()
\* changes the global run state or the idempotency flags.
C18_ListenReturns ==
    /\ (listen_pc # "idle" /\ listen_timeout # <<>>) ~> (listen_pc = "idle")
    /\ [][(listen_pc # "idle" /\ listen_timeout = <<>>)
             => listen_pc' # "idle"]_vars
    /\ [][(listen_pc # "idle" \/ listen_pc' # "idle") =>
             UNCHANGED <<RUN_J, RUN_mode, RUN_count, RUN_raw, RUN_config,
                         uploaded, host_unpacked, launch_script>>]_vars

\* the remote unpack step of the last run(): taken, and whether it delivered
\* the host_setup fragments (it did not when it raised or only printed)
UnpackTaken == obs.op = "run"
                  /\ (Composed("unpack") \/ "manager_map" \in Range(obs.events))
UnpackRaised == obs.outcome = "BackendError" /\ ~Composed("launch")
UnpackDry == Composed("unpack") /\ Get(LaunchConfig, "dry", FALSE)

\* C19: when the remote unpack step of a run() raised, or ran over ssh in
\* dry mode, host_unpacked stays falsy, so that a later run() unpacks again.
C19_FlagMeansDelivered ==
    (UnpackTaken /\ (UnpackRaised \/ UnpackDry)) => ~Truthy(host_unpacked)

\* C20: upload tracking is per instance: an upload_mount call of the second
\* instance that returns has invoked the upload of each of its mounts
\* itself, whatever the first instance uploaded before.
C20_PerInstanceTracking ==
    (obs.op = "upload_mount_J2" /\ obs.outcome = "ok")
       => \A m \in Range(J2Mounts) : m \in Range(J2_uploads)

\* the mount whose upload raised in the last call
FailedMount == obs.uploads[Len(obs.uploads)]

\* C21: a call in which the upload of a mount raised leaves that mount out
\* of the uploaded list, and the next upload_mount call of the instance
\* invokes its upload again.
C21_RecordedOnlyWhenUploaded ==
    [][/\ obs'.outcome = "UploadError" =>
             obs'.uploads[Len(obs'.uploads)] \notin Range(uploaded')
       /\ (obs.outcome = "UploadError" /\ obs'.op = "upload_mount"
              /\ FailedMount \in Range(mounts'))
             => FailedMount \in Range(obs'.uploads)]_vars

\* C22: when run() has invoked the launch adapter, launch_script is the
\* script make_host_script composed in that run() call from the current
\* mounts, runner and launch configuration: not None, not the host-unpack
\* script of the ssh unpack step, not the script of an earlier call.
C22_AdapterGetsThisRunsScript ==
    (obs.op = "run" /\ obs.launched # <<>>) =>
       /\ Composed("launch")
       /\ launch_script = HostScript(mounts, runner, LaunchConfig,
                                     host_unpacked)
       /\ launch_script # None
       /\ launch_script # make_host_unpack_script(mounts, LaunchConfig)

\* a second run() that took the ssh unpack step (launch_script was the
\* unpack script, then None) before it composed its script and launched
C22_Witness ==
    /\ obs.op = "run" /\ obs.outcome = "ok" /\ RUN_count = 2
    /\ obs.launched = <<"ssh">> /\ obs.composed = <<"unpack", "launch">>
    /\ "post" \in Kinds(launch_script)

\* C23: a config() call that fails on the mode (an unknown mode name, or no
\* mode and no run block) leaves RUN.mode and RUN.config as they were before
\* the call and uploads no mount, so that a following run() uses the
\* configuration resolved last.
C23_FailedConfigChangesNothing ==
    [][(obs'.op = "config"
           /\ obs'.outcome \in {"KeyError", "AssertionError"})
          => /\ RUN_mode' = RUN_mode
             /\ RUN_config' = RUN_config
             /\ uploadCount' = uploadCount
             /\ obs'.uploads = <<>>]_vars

=============================================================================
